---- MODULE Spec2Model ----
(***************************************************************************)
(* Athena: the video discovery-and-verification pipeline.                  *)
(*                                                                         *)
(* Four entry points drive the same pipeline: the long-running server's    *)
(* text and image endpoints (server.js, using ytUtils.js) and the two      *)
(* serverless handlers (api/find-videos.js, api/find-videos-image.js),     *)
(* each of which carries its own copy of the stages.                       *)
(*                                                                         *)
(*   Spec          one session after another, through every entry point    *)
(*   SpecLive      Spec, every outbound call eventually returning or failing*)
(*   SpecSearch    searchYouTubeVideos applied to bounded provider responses*)
(*   SpecFanout    searchMultipleQueries, its searches settling in any order*)
(*   SpecVerify    verifyVideosRelevance applied to bounded candidate lists *)
(*   SpecDuration  parseDuration applied to bounded strings                 *)
(*   SpecApi       the client's findVideosForText and findVideosForImage    *)
(*   SpecClient    the client's App component                               *)
(***************************************************************************)
EXTENDS Integers, Sequences, FiniteSets

VARIABLES
    SKIP_VERIFICATION, \* the configuration flag, read once at module load
    YT_API_KEY,        \* whether the video-provider credential is set
    API_KEY,           \* whether the generative-model credential is set
    pc,                \* where the session in progress stands
    entry,             \* the entry point serving the session
    req,               \* the request of the session: method and input
    calls,             \* history: outbound calls issued in the session
    modelOutcome,      \* history: what the first model call did
    data,              \* the parsed first model response
    pending,           \* SpecFanout: indexes of the queries still in flight
    results,           \* SpecFanout: per query, the list its search returned
    answers,           \* SpecFanout history: per query, the provider's answer
    offered,           \* history: ids the provider returned as admissible
    videos,            \* the merged candidate list
    verifyPath,        \* which return path the verification stage took
    response,          \* the response sent for the session
    callIn,            \* a function on its own: the arguments of the call
    callOut,           \* a function on its own: what the call returned
    app,               \* SpecClient: the state of the App component
    net                \* SpecClient history: submits, requests sent and in flight

vars == <<SKIP_VERIFICATION, YT_API_KEY, API_KEY, pc, entry, req, calls,
          modelOutcome, data, pending, results, answers, offered, videos, verifyPath, response,
          callIn, callOut, app, net>>

configVars == <<SKIP_VERIFICATION, YT_API_KEY, API_KEY>>

sessionVars == <<SKIP_VERIFICATION, YT_API_KEY, API_KEY, pc, entry, req, calls,
                 modelOutcome, data, offered, videos, verifyPath, response>>

fanoutVars == <<pending, results, answers>>

callVars == <<callIn, callOut>>

clientVars == <<app, net>>

----------------------------------------------------------------------------
(* Bounds of the model *)

MaxQueries == 2     \* search_queries entries in a model response
MaxHits == 3        \* hits in one provider search response
MaxIds == 2         \* distinct video ids the provider knows
MaxLimit == 2       \* largest maxResults tried in SpecSearch
MaxCandidates == 3  \* candidates handed to verification in SpecVerify
MaxDuration == 6    \* characters of a duration string in SpecDuration
MaxViewCount == 2   \* characters of a view count in SpecSearch
MaxSubmits == 3     \* submit actions of the user in SpecClient

(* Program constants *)

videosPerQuery == 2   \* searchMultipleQueries(data.search_queries, 2)
MaxVideos == 4        \* .slice(0, 4)
PassScore == 7        \* .filter(v => v.score >= 7)
TopCount == 2         \* verifiedVideos.length < 2, .slice(0, 2)

----------------------------------------------------------------------------
(* Values *)

Ids == 1..MaxIds

Tiers == {"beginner", "intermediate", "advanced"}

\* A tier string the model may return that difficultyOrder does not know.
AnyTier == Tiers \cup {"expert"}

EntryPoints == {"serverText", "serverImage", "apiText", "apiImage"}

\* Which copy of the pipeline stages an entry point runs.
CopyOf(e) ==
    IF e \in {"serverText", "serverImage"} THEN "server"
    ELSE IF e = "apiText" THEN "apiText" ELSE "apiImage"

Copies == {"server", "apiText", "apiImage"}

\* One hit of a provider search response together with what the details
\* response says about it.
DetailKinds == {"absent", "ok", "notEmbeddable", "private"}

\* The contentDetails.duration and statistics.viewCount of most hits.
PlainDuration == [kind |-> "string", chars |-> <<"P", "T", "7", "M">>]

PlainViewCount == [kind |-> "string", chars |-> <<"7">>]

Hit(id, details) ==
    [videoId |-> id, details |-> details,
     duration |-> PlainDuration, viewCount |-> PlainViewCount]

Hits == {Hit(id, details) : id \in Ids, details \in DetailKinds}

RECURSIVE SeqsUpTo(_, _)
SeqsUpTo(S, n) ==
    IF n = 0 THEN {<< >>}
    ELSE LET shorter == SeqsUpTo(S, n - 1)
         IN  shorter \cup {Append(s, x) : s \in {t \in shorter : Len(t) = n - 1}, x \in S}

----------------------------------------------------------------------------
(* JavaScript helpers *)

\* Array.prototype.sort is stable: entries come out by ascending key, equal
\* keys in their input order.  keys[i] is the comparator's key of seq[i].
StableSort(seq, keys) ==
    LET n == Len(seq)
        Rank(i) == Cardinality({j \in 1..n :
                        keys[j] < keys[i] \/ (keys[j] = keys[i] /\ j < i)}) + 1
    IN  [k \in 1..n |-> seq[CHOOSE i \in 1..n : Rank(i) = k]]

\* Array.prototype.slice(0, n)
Slice(seq, n) == SubSeq(seq, 1, IF Len(seq) < n THEN Len(seq) ELSE n)

\* The lookup table of every sort by difficulty.
difficultyOrder == [beginner |-> 0, intermediate |-> 1, advanced |-> 2]

\* (difficultyOrder[d] || 1): an unknown tier reads undefined, and both
\* undefined and 0 are falsy, so both yield 1.
DifficultyKey(d) ==
    LET found == IF d \in DOMAIN difficultyOrder
                 THEN <<difficultyOrder[d]>> ELSE << >>
    IN  IF found = << >> \/ found[1] = 0 THEN 1 ELSE found[1]

\* vs.sort((a, b) => (difficultyOrder[a.difficulty] || 1) - (difficultyOrder[b.difficulty] || 1))
SortByDifficulty(vs) ==
    StableSort(vs, [i \in 1..Len(vs) |-> DifficultyKey(vs[i].difficulty)])

----------------------------------------------------------------------------
(* Duration normalizer: parseDuration *)

\* Strings are sequences of characters.
DigitChars == <<"0", "1", "2", "3", "4", "5", "6", "7", "8", "9">>

IsDigit(c) == \E d \in 1..10 : DigitChars[d] = c

DigitValue(c) == (CHOOSE d \in 1..10 : DigitChars[d] = c) - 1

\* parseInt of a string of decimal digits.
RECURSIVE ParseDigits(_)
ParseDigits(ds) ==
    IF ds = << >> THEN 0
    ELSE 10 * ParseDigits(SubSeq(ds, 1, Len(ds) - 1)) + DigitValue(ds[Len(ds)])

\* Number.prototype.toString of a non-negative integer.
RECURSIVE ToString(_)
ToString(n) ==
    IF n < 10 THEN <<DigitChars[n + 1]>>
    ELSE Append(ToString(n \div 10), DigitChars[(n % 10) + 1])

\* s.padStart(2, '0')
PadStart2(s) ==
    IF Len(s) >= 2 THEN s
    ELSE [k \in 1..(2 - Len(s)) |-> "0"] \o s

Unknown == <<"U", "n", "k", "n", "o", "w", "n">>

\* The regular expression is not anchored: it matches at the first "PT" of
\* the string, wherever that is.  0 when the string has none.
IndexOfPT(s) ==
    LET at == {i \in 1..(Len(s) - 1) : s[i] = "P" /\ s[i + 1] = "T"}
    IN  IF at = {} THEN 0 ELSE CHOOSE i \in at : \A j \in at : i <= j

\* The number of digits at position i and after it.
DigitRun(s, i) ==
    LET ends == {k \in 0..(Len(s) - i + 1) :
                    \A j \in i..(i + k - 1) : IsDigit(s[j])}
    IN  CHOOSE k \in ends : \A m \in ends : m <= k

\* (?:(\d+)U)? at position i: the group takes every digit there is and
\* matches when the unit letter follows them; otherwise the group is
\* undefined and the match goes on from i.
Component(s, i, unit) ==
    LET k == DigitRun(s, i)
    IN  IF k > 0 /\ i + k <= Len(s) /\ s[i + k] = unit
        THEN [digits |-> SubSeq(s, i, i + k - 1), next |-> i + k + 1]
        ELSE [digits |-> << >>, next |-> i]

\* parseInt(match[k] || 0)
GroupValue(digits) == IF digits = << >> THEN 0 ELSE ParseDigits(digits)

\* The argument is undefined, null or '' (kind "absent"), a string, or a
\* truthy value that is no string (kind "other"), on which .match is not a
\* function.
parseDuration(isoDuration) ==
    IF isoDuration.kind = "absent" \/ isoDuration.chars = << >>
    THEN [threw |-> FALSE, value |-> Unknown]
    ELSE IF isoDuration.kind = "other"
    THEN [threw |-> TRUE, value |-> << >>]
    ELSE LET s == isoDuration.chars
             at == IndexOfPT(s)
             h == Component(s, at + 2, "H")
             m == Component(s, h.next, "M")
             sec == Component(s, m.next, "S")
             hours == GroupValue(h.digits)
             minutes == GroupValue(m.digits)
             seconds == GroupValue(sec.digits)
         IN  IF at = 0 THEN [threw |-> FALSE, value |-> Unknown]
             ELSE IF hours > 0
             THEN [threw |-> FALSE,
                   value |-> ToString(hours) \o <<":">>
                                \o PadStart2(ToString(minutes)) \o <<":">>
                                \o PadStart2(ToString(seconds))]
             ELSE [threw |-> FALSE,
                   value |-> ToString(minutes) \o <<":">>
                                \o PadStart2(ToString(seconds))]

----------------------------------------------------------------------------
(* Candidate search: searchYouTubeVideos *)

Eligible(hit) == hit.details = "ok"

NaN == [nan |-> TRUE, n |-> 0]

Number(n) == [nan |-> FALSE, n |-> n]

\* parseInt of a string: an optional minus sign, then the digits there
\* are before the first other character; NaN when there is none.
parseInt(chars) ==
    LET negative == chars # << >> /\ chars[1] = "-"
        from == IF negative THEN 2 ELSE 1
        k == DigitRun(chars, from)
    IN  IF k = 0 THEN NaN
        ELSE Number((IF negative THEN -1 ELSE 1)
                        * ParseDigits(SubSeq(chars, from, from + k - 1)))

\* parseInt(details.statistics?.viewCount || 0): an absent count and ''
\* are falsy and read 0.
viewCount(raw) ==
    IF raw.kind = "absent" \/ raw.chars = << >> THEN Number(0)
    ELSE parseInt(raw.chars)

\* The object pushed for an admitted hit.
Video(hit, difficulty) ==
    [videoId |-> hit.videoId,
     duration |-> parseDuration(hit.duration).value,
     viewCount |-> viewCount(hit.viewCount),
     difficulty |-> difficulty]

\* The for-loop over searchData.items: push every eligible hit, and leave
\* the loop after a push that brings the list to maxResults or more.  An
\* error thrown while an object is built leaves the loop for the catch
\* block.
RECURSIVE AdmitLoop(_, _, _, _)
AdmitLoop(items, acc, maxResults, difficulty) ==
    IF items = << >> THEN [threw |-> FALSE, videos |-> acc]
    ELSE IF ~Eligible(Head(items))
         THEN AdmitLoop(Tail(items), acc, maxResults, difficulty)
         ELSE IF parseDuration(Head(items).duration).threw
         THEN [threw |-> TRUE, videos |-> << >>]
         ELSE LET pushed == Append(acc, Video(Head(items), difficulty))
              IN  IF Len(pushed) >= maxResults
                  THEN [threw |-> FALSE, videos |-> pushed]
                  ELSE AdmitLoop(Tail(items), pushed, maxResults, difficulty)

\* What the two fetches of one search may do: both return well-formed
\* bodies, or the search fetch or the details fetch rejects or returns a
\* body that does not parse.  Every failure lands in the catch block.
SearchOutcomes ==
    {"ok", "searchRejects", "searchMalformed", "detailsRejects", "detailsMalformed"}

SearchFailures == SearchOutcomes \ {"ok"}

\* A search whose catch block swallows nothing.
searchYouTubeVideosUncaught(key, outcome, items, maxResults, difficulty) ==
    IF ~key THEN [threw |-> FALSE, videos |-> << >>]
    ELSE IF outcome \in SearchFailures THEN [threw |-> TRUE, videos |-> << >>]
    ELSE IF items = << >> THEN [threw |-> FALSE, videos |-> << >>]
    ELSE AdmitLoop(items, << >>, maxResults, difficulty)

\* The result of the call and whether an error left it.
searchYouTubeVideosCall(key, outcome, items, maxResults, difficulty) ==
    IF ~key THEN [threw |-> FALSE, videos |-> << >>]
    ELSE IF outcome \in SearchFailures THEN [threw |-> FALSE, videos |-> << >>]
    ELSE IF items = << >> THEN [threw |-> FALSE, videos |-> << >>]
    ELSE LET r == AdmitLoop(items, << >>, maxResults, difficulty)
         IN  IF r.threw THEN [threw |-> FALSE, videos |-> << >>] ELSE r

searchYouTubeVideos(key, outcome, items, maxResults, difficulty) ==
    searchYouTubeVideosCall(key, outcome, items, maxResults, difficulty).videos

\* The fetches one search issues: none without the key, the search fetch
\* alone when it fails or returns no item, the details fetch after it
\* otherwise.
SearchFetches(key, outcome, items) ==
    IF ~key THEN 0
    ELSE IF outcome \in {"searchRejects", "searchMalformed"} THEN 1
    ELSE IF outcome = "ok" /\ items = << >> THEN 1
    ELSE 2

----------------------------------------------------------------------------
(* Fan-out and dedupe: searchMultipleQueries *)

RECURSIVE Flat(_)
Flat(lists) ==
    IF lists = << >> THEN << >> ELSE Head(lists) \o Flat(Tail(lists))

\* The nested for-loops with seenIds: keep a video unless its id was seen.
RECURSIVE DedupeLoop(_, _, _)
DedupeLoop(vs, seenIds, acc) ==
    IF vs = << >> THEN acc
    ELSE IF Head(vs).videoId \in seenIds
         THEN DedupeLoop(Tail(vs), seenIds, acc)
         ELSE DedupeLoop(Tail(vs), seenIds \cup {Head(vs).videoId},
                         Append(acc, Head(vs)))

\* A merge that forgets the seenIds test.
searchMultipleQueriesFlat(copy, lists) == Flat(lists)

\* ytUtils.js and api/find-videos.js dedupe; api/find-videos-image.js
\* returns results.flat().

searchMultipleQueries(copy, lists) ==
    IF copy = "apiImage" THEN Flat(lists)
    ELSE DedupeLoop(Flat(lists), {}, << >>)

----------------------------------------------------------------------------
(* Relevance verification: verifyVideosRelevance *)

\* { ...v, f: x, ... }
WithFields(v, extra) ==
    [f \in DOMAIN v \cup DOMAIN extra |->
        IF f \in DOMAIN extra THEN extra[f] ELSE v[f]]

\* delete v.f for every f of fields
Without(v, fields) == [f \in DOMAIN v \ fields |-> v[f]]

\* getMultipleVideoDetails: the ids that get a description.  Without the
\* provider key, without ids, or when the fetch fails, the Map is empty.
DetailOutcomes == {"ok", "fails"}

getMultipleVideoDetails(key, videoIds, outcome) ==
    IF ~key \/ videoIds = {} THEN {}
    ELSE IF outcome = "fails" THEN {}
    ELSE videoIds

\* videos.map(video => ({...video, description: ..., tags: ...}))
videosWithDetails(vs, detailsMap) ==
    [i \in 1..Len(vs) |->
        WithFields(vs[i],
            [description |-> IF vs[i].videoId \in detailsMap THEN "text" ELSE "",
             tags |-> << >>])]

\* The scoring call: model.generateContent rejects, its text does not parse,
\* it parses with a scores value that is no list, or it parses with a list
\* of scores (an absent scores field reads as the empty list).
ScoringKinds == {"rejects", "unparseable", "scoresNotList", "parsed"}

\* (scores[i] || 0): an absent position and a 0 both read 0.
ScoreAt(scores, i) ==
    IF i > Len(scores) THEN 0
    ELSE IF scores[i] = 0 THEN 0 ELSE scores[i]

\* .map((video, i) => ({ ...video, score: scores[i] || 0 }))
Scored(vwd, scores) ==
    [i \in 1..Len(vwd) |-> WithFields(vwd[i], [score |-> ScoreAt(scores, i)])]

\* A strip that forgets the score.
StrippedKeepingScore(vs) ==
    [i \in 1..Len(vs) |-> Without(vs[i], {"description", "tags"})]

\* .map(v => { delete v.description; delete v.tags; delete v.score; return v; })
Stripped(vs) ==
    [i \in 1..Len(vs) |-> Without(vs[i], {"description", "tags", "score"})]

\* A filter that leaves out a score of exactly 7.
PassesFilterStrict(v) == v.score > PassScore

\* .filter(v => v.score >= 7)
PassesFilter(v) == v.score >= PassScore

\* .sort((a, b) => b.score - a.score)
SortByScoreDesc(vs) == StableSort(vs, [i \in 1..Len(vs) |-> 0 - vs[i].score])

\* The body of the try block once the response has parsed.
ScoreAndFilter(vwd, scores) ==
    LET passing == SelectSeq(Scored(vwd, scores), PassesFilter)
        first   == Stripped(SortByDifficulty(passing))
    IN  IF Len(first) < TopCount
        THEN [path |-> "top2",
              videos |-> Stripped(SortByDifficulty(
                            Slice(SortByScoreDesc(Scored(vwd, scores)), TopCount)))]
        ELSE [path |-> "threshold", videos |-> first]

\* keyConcepts is [defined |-> BOOLEAN, items |-> sequence]: data.key_concepts
\* may be absent from the model's response.  keyConcepts[0] is read before
\* the try block, so reading it from undefined throws out of the function.
verifyVideosRelevance(copy, key, keyConcepts, vs, detailOutcome, scoring) ==
    LET detailsMap == getMultipleVideoDetails(key,
                          {vs[i].videoId : i \in 1..Len(vs)}, detailOutcome)
        vwd == videosWithDetails(vs, detailsMap)
        caught == [path |-> "failed", videos |-> SortByDifficulty(vs)]
    IN  IF ~keyConcepts.defined THEN [path |-> "threw", videos |-> << >>]
        ELSE IF scoring.kind \in {"rejects", "unparseable"} THEN caught
        ELSE IF scoring.kind = "scoresNotList"
             THEN IF copy = "apiText"
                  THEN ScoreAndFilter(vwd, << >>)   \* every scores[i] is undefined
                  ELSE caught                        \* scores.join is not a function
        ELSE ScoreAndFilter(vwd, scoring.scores)

----------------------------------------------------------------------------
(* The session: one request through an entry point *)

\* The handlers answer POST; a serverless handler answers any other method
\* 405, and express routes only POST to the server's handlers.
Methods == {"POST", "GET"}

IsImage(e) == e \in {"serverImage", "apiImage"}

\* The text of a text request: missing, '', whitespace only, or some text.
\* The image of an image request: missing or '', a data URL with nothing
\* after its comma, an image, a number (a truthy value without .includes)
\* or a non-empty array (which has .includes and a length).
Inputs(e) ==
    IF IsImage(e) THEN {"missing", "noData", "image", "number", "array"}
    ELSE {"missing", "empty", "blank", "text"}

Requests(e) == [method : Methods, input : Inputs(e)]

NoRequest == [method |-> "POST", input |-> "missing"]

NoCalls == [model |-> 0, provider |-> 0]

NoResponse ==
    [status |-> 0, videos |-> << >>, body |-> [pending |-> TRUE], sent |-> 0]

NoData ==
    [overview |-> "",
     key_concepts |-> [defined |-> FALSE, items |-> << >>],
     search_queries |-> [kind |-> "absent", items |-> << >>],
     study_tip |-> ""]

KeyConceptsValues ==
    {[defined |-> FALSE, items |-> << >>],
     [defined |-> TRUE, items |-> << >>],
     [defined |-> TRUE, items |-> <<"topic">>]}

Overviews == {"overview", "another overview"}

\* What the first model call may do: reject, reject with a message naming
\* the API key, return text that does not parse (JSON.parse's message
\* quotes the text, which may itself name the API key), return JSON that
\* is no object, or return a JSON object.
ModelOutcomes ==
    {"rejects", "rejectsApiKey", "unparseable", "unparseableApiKey",
     "parsedNotObject", "parsed"}

\* The error a failing first model call leaves in the handler's try block.
ErrorOf(outcome) ==
    [syntax |-> outcome \in {"unparseable", "unparseableApiKey"},
     namesApiKey |-> outcome \in {"rejectsApiKey", "unparseableApiKey"}]

OtherError == [syntax |-> FALSE, namesApiKey |-> FALSE]

\* The search_queries of a model response, each query standing for its
\* difficulty tag: the prompt asks for one query per tier, and the model
\* may return them in any order, return fewer, or invent a tier.
QueryLists ==
    {qs \in SeqsUpTo(AnyTier, MaxQueries) :
        \A j, k \in 1..Len(qs) : j # k => qs[j] # qs[k]}

\* data.search_queries: absent, a value that is no array, or an array.
QueriesValues ==
    {[kind |-> "absent", items |-> << >>], [kind |-> "notList", items |-> << >>]}
        \cup {[kind |-> "list", items |-> qs] : qs \in QueryLists}

\* Array.isArray(data.search_queries) && data.search_queries.length > 0
HasQueries(d) ==
    d.search_queries.kind = "list" /\ Len(d.search_queries.items) > 0

\* Scores the scoring call returns within a session.
SessionScores == {0, 9}

\* A catch block that answers with a status of its own.
CatchBlockBadGateway(err) == [status |-> 502, error |-> "Bad gateway"]

\* The catch block of a handler asks first whether the message names the
\* API key, then whether the error is a SyntaxError.
CatchBlock(err) ==
    IF err.namesApiKey THEN [status |-> 401, error |-> "Invalid API key"]
    ELSE IF err.syntax THEN [status |-> 500, error |-> "Failed to parse"]
    ELSE [status |-> 500, error |-> "Failed to process"]

\* The handler before its first outbound call: the error it answers with,
\* or status 0 when the request goes on to the model.
Proceed == [status |-> 0, error |-> ""]

Admission(e, r, apiKey) ==
    IF e = "apiText"
    THEN IF r.method # "POST"
         THEN [status |-> 405, error |-> "Method not allowed"]
         ELSE IF ~apiKey
         THEN [status |-> 500, error |-> "GEMINI_API_KEY not configured"]
         ELSE IF r.input # "text"
         THEN [status |-> 400, error |-> "Text is required"]
         ELSE Proceed
    ELSE IF e = "apiImage"
    THEN IF r.method # "POST"
         THEN [status |-> 405, error |-> "Method not allowed"]
         ELSE IF r.input = "missing"
         THEN [status |-> 400, error |-> "Image is required"]
         ELSE IF r.input = "number"     \* image.includes is not a function
         THEN CatchBlock(OtherError)
         ELSE IF r.input = "noData"
         THEN [status |-> 400, error |-> "Image data is invalid"]
         ELSE IF ~apiKey
         THEN [status |-> 401, error |-> "Invalid API key"]
         ELSE Proceed
    ELSE IF e = "serverText"
    THEN IF r.input # "text"
         THEN [status |-> 400, error |-> "Text is required"]
         ELSE Proceed
    ELSE IF r.input = "missing"
         THEN [status |-> 400, error |-> "Image is required"]
         ELSE IF r.input = "number"     \* image.includes is not a function
         THEN CatchBlock(OtherError)
         ELSE IF r.input = "noData"
         THEN [status |-> 400, error |-> "Image data is invalid"]
         ELSE Proceed

\* A server that starts whatever its environment holds.
ServerRunningAnyway == TRUE

\* The server process exits at startup without the model credential.
ServerRunning == API_KEY

\* A field JSON.stringify leaves out: its value is undefined.
Undefined(b, f) ==
    \/ f = "key_concepts" /\ ~b[f].defined
    \/ f = "search_queries" /\ b[f].kind = "absent"

\* A response that carries the videos alone.
ResultBodyVideosOnly(d, vs, deleted) == [videos |-> vs]

\* res.json(data): data with data.videos set, and without search_queries
\* where the handler deleted it.
ResultBody(d, vs, deleted) ==
    LET kept == IF deleted THEN Without(d, {"search_queries"}) ELSE d
        b == WithFields(kept, [videos |-> vs])
    IN  [f \in {g \in DOMAIN b : ~Undefined(b, g)} |-> b[f]]

ErrorBody(msg) == [error |-> msg]

\* The handler's own dedupe of the verified list; only
\* api/find-videos-image.js has it.
FinalVideos(copy, verifiedVideos) ==
    IF copy = "apiImage"
    THEN Slice(DedupeLoop(verifiedVideos, {}, << >>), MaxVideos)
    ELSE Slice(verifiedVideos, MaxVideos)

\* res.status(status).json(body), after which the handler returns.
Respond(status, body, sentBefore) ==
    /\ response' = [status |-> status,
                    videos |-> IF "videos" \in DOMAIN body THEN body.videos
                               ELSE << >>,
                    body |-> body,
                    sent |-> sentBefore + 1]
    /\ pc' = "done"

SessionInit ==
    /\ SKIP_VERIFICATION \in BOOLEAN
    /\ YT_API_KEY \in BOOLEAN
    /\ API_KEY \in BOOLEAN
    /\ pc = "idle"
    /\ entry = "serverText"
    /\ req = NoRequest
    /\ calls = NoCalls
    /\ modelOutcome = "none"
    /\ data = NoData
    /\ offered = {}
    /\ videos = << >>
    /\ verifyPath = "none"
    /\ response = NoResponse

\* A request arrives (the process serves one session after another) and
\* the handler runs up to its first outbound call, the first model call.
Request ==
    /\ pc \in {"idle", "done"}
    /\ \E e \in EntryPoints :
        /\ CopyOf(e) = "server" => ServerRunning
        /\ \E r \in Requests(e) :
            /\ CopyOf(e) = "server" => r.method = "POST"
            /\ entry' = e
            /\ req' = r
            /\ modelOutcome' = "none"
            /\ data' = NoData
            /\ offered' = {}
            /\ videos' = << >>
            /\ verifyPath' = "none"
            /\ LET a == Admission(e, r, API_KEY)
               IN  IF a.status = 0
                   THEN /\ pc' = "model"
                        /\ response' = NoResponse
                        /\ calls' = [model |-> 1, provider |-> 0]
                   ELSE /\ Respond(a.status, ErrorBody(a.error), 0)
                        /\ calls' = NoCalls
    /\ UNCHANGED <<clientVars, configVars, fanoutVars, callVars>>

\* The first model call returns.  A parsed response with a non-empty
\* search_queries starts one search per query, all in flight together.
ModelRespondsWith(outcome) ==
    /\ pc = "model"
    /\ modelOutcome' = outcome
    /\ IF outcome # "parsed"
       THEN /\ Respond(CatchBlock(ErrorOf(outcome)).status,
                       ErrorBody(CatchBlock(ErrorOf(outcome)).error),
                       response.sent)
            /\ UNCHANGED data
       ELSE \E sq \in QueriesValues, kc \in KeyConceptsValues,
               ov \in Overviews :
               LET d == [overview |-> ov, key_concepts |-> kc,
                         search_queries |-> sq, study_tip |-> "tip"]
               IN  /\ data' = d
                   /\ IF HasQueries(d)
                      THEN pc' = "fanout" /\ UNCHANGED response
                      ELSE Respond(200, ResultBody(d, << >>, FALSE),
                                   response.sent)
    /\ UNCHANGED <<clientVars, configVars, entry, req, calls, offered, videos, verifyPath,
                   fanoutVars, callVars>>

ModelResponds == \E outcome \in ModelOutcomes : ModelRespondsWith(outcome)

\* What the provider may answer to one query of a session: the search
\* fails, or search and details return a page of distinct hits, all of
\* them admissible or the only one not.
SessionPages ==
    {[k \in 1..Len(ids) |-> Hit(ids[k], "ok")] :
        ids \in {s \in SeqsUpTo(Ids, MaxHits) :
                    \A j, k \in 1..Len(s) : j # k => s[j] # s[k]}}
        \cup {<<Hit(1, "private")>>}

ProviderAnswers ==
    {[outcome |-> "searchRejects", items |-> << >>]}
        \cup {[outcome |-> "ok", items |-> items] : items \in SessionPages}

\* The ids a provider answer offers as admissible.
Admissible(answer) ==
    {answer.items[k].videoId :
        k \in {j \in 1..Len(answer.items) : Eligible(answer.items[j])}}

\* What the scoring call may answer for n candidates within a session.
SessionScoreLists == SeqsUpTo(SessionScores, MaxQueries * videosPerQuery)

ScoringAnswers(n) ==
    {[kind |-> k, scores |-> << >>] : k \in ScoringKinds}
        \cup {[kind |-> "parsed", scores |-> sc] :
                sc \in {t \in SessionScoreLists : Len(t) = n}}

\* The fetches all searches of a fan-out issue together.
RECURSIVE FanOutFetches(_, _, _)
FanOutFetches(key, as, n) ==
    IF n = 0 THEN 0
    ELSE FanOutFetches(key, as, n - 1)
            + SearchFetches(key, as[n].outcome, as[n].items)

\* await searchMultipleQueries(data.search_queries, 2) returns: every
\* search has settled (SpecFanout interleaves them; a search shares no
\* state with the session) and the lists are merged.  The handler answers
\* at once when there is no candidate or when verification is skipped.
FanOutWith(as) ==
    /\ pc = "fanout"
    /\  LET qs == data.search_queries.items
            lists == [i \in 1..Len(qs) |->
                        searchYouTubeVideos(YT_API_KEY, as[i].outcome,
                            as[i].items, videosPerQuery, qs[i])]
            merged == searchMultipleQueries(CopyOf(entry), lists)
        IN  /\ offered' = IF YT_API_KEY
                          THEN UNION {Admissible(as[i]) : i \in DOMAIN as}
                          ELSE {}
            /\ videos' = merged
            /\ calls' = [calls EXCEPT !.provider =
                            @ + FanOutFetches(YT_API_KEY, as, Len(qs))]
            /\ IF Len(merged) = 0
               THEN Respond(200, ResultBody(data, << >>, TRUE), response.sent)
               ELSE IF SKIP_VERIFICATION
                    THEN Respond(200,
                             ResultBody(data,
                                 Slice(SortByDifficulty(merged), MaxVideos), TRUE),
                             response.sent)
                    ELSE pc' = "verify" /\ UNCHANGED response
    /\ UNCHANGED <<clientVars, configVars, entry, req, modelOutcome, data, verifyPath,
                   fanoutVars, callVars>>

FanOut ==
    \E as \in [1..Len(data.search_queries.items) -> ProviderAnswers] :
        FanOutWith(as)

\* The outbound calls of one run of the verification stage: the details
\* fetch, and the scoring call unless reading keyConcepts[0] threw first.
VerifyCalls(key, keyConcepts, vs) ==
    [model |-> IF keyConcepts.defined THEN 1 ELSE 0,
     provider |-> IF key /\ Len(vs) > 0 THEN 1 ELSE 0]

\* What the handler answers to what the verification stage did: the catch
\* block's 500 when it threw, the Session Result otherwise.
AnswerTo(r, copy, d) ==
    IF r.path = "threw"
    THEN [path |-> r.path,
          status |-> CatchBlock(OtherError).status,
          body |-> ErrorBody(CatchBlock(OtherError).error)]
    ELSE [path |-> r.path,
          status |-> 200,
          body |-> ResultBody(d, FinalVideos(copy, r.videos), TRUE)]

\* The verification stage runs and the handler answers.
VerifyWith(detailOutcome, scoring) ==
    /\ pc = "verify"
    /\ \E r \in {verifyVideosRelevance(CopyOf(entry), YT_API_KEY,
                      data.key_concepts, videos, detailOutcome, scoring)} :
        \E a \in {AnswerTo(r, CopyOf(entry), data)} :
            /\ verifyPath' = a.path
            /\ Respond(a.status, a.body, response.sent)
    /\ \E c \in {VerifyCalls(YT_API_KEY, data.key_concepts, videos)} :
            calls' = [model |-> calls.model + c.model,
                      provider |-> calls.provider + c.provider]
    /\ UNCHANGED <<clientVars, configVars, entry, req, modelOutcome, data, offered, videos,
                   fanoutVars, callVars>>

Verify ==
    \E detailOutcome \in DetailOutcomes,
       scoring \in ScoringAnswers(Len(videos)) :
        VerifyWith(detailOutcome, scoring)

NoCall == [fn |-> "none"]

\* The App component as mounted: useState(''), useState(false),
\* useState(null), useState(null); no request sent.
AppIdle ==
    /\ app = [inputText |-> "", loading |-> FALSE, results |-> "null",
              error |-> << >>]
    /\ net = [submits |-> 0, requests |-> 0, inFlight |-> 0]

Init ==
    /\ SessionInit
    /\ AppIdle
    /\ pending = {}
    /\ results = << >>
    /\ answers = << >>
    /\ callIn = NoCall
    /\ callOut = NoCall

Next == Request \/ ModelResponds \/ FanOut \/ Verify

Spec == Init /\ [][Next]_vars

\* Every outbound call eventually returns or fails: a handler suspended on
\* one is eventually resumed.
SpecLive ==
    Spec /\ WF_vars(ModelResponds) /\ WF_vars(FanOut) /\ WF_vars(Verify)

----------------------------------------------------------------------------
(* searchYouTubeVideos on its own *)

SearchInputs ==
    {[fn |-> "searchYouTubeVideos", key |-> FALSE, outcome |-> "ok",
      items |-> << >>, maxResults |-> m, difficulty |-> d] :
        m \in 0..MaxLimit, d \in Tiers}
    \cup {[fn |-> "searchYouTubeVideos", key |-> TRUE, outcome |-> o,
           items |-> << >>, maxResults |-> m, difficulty |-> d] :
        o \in {"searchRejects", "searchMalformed"}, m \in 0..MaxLimit, d \in Tiers}
    \cup {[fn |-> "searchYouTubeVideos", key |-> TRUE, outcome |-> o,
           items |-> items, maxResults |-> m, difficulty |-> d] :
        o \in {"detailsRejects", "detailsMalformed"},
        items \in SeqsUpTo(Hits, MaxHits) \ {<< >>}, m \in 0..MaxLimit, d \in Tiers}
    \cup {[fn |-> "searchYouTubeVideos", key |-> TRUE, outcome |-> "ok",
           items |-> items, maxResults |-> m, difficulty |-> d] :
        items \in SeqsUpTo(Hits, MaxHits), m \in 0..MaxLimit, d \in Tiers}

\* What the details response may hold for one hit: a duration that is
\* absent, well-formed, malformed or no string, and a view count that is
\* absent or a string of digits, signs and letters.
HitDurations ==
    {[kind |-> "absent", chars |-> << >>], PlainDuration,
     [kind |-> "string", chars |-> <<"7", "P", "T">>],
     [kind |-> "other", chars |-> <<"7">>]}

ViewCountChars == {"0", "7", "-", "a"}

HitViewCounts ==
    {[kind |-> "absent", chars |-> << >>]}
        \cup {[kind |-> "string", chars |-> s] :
                s \in SeqsUpTo(ViewCountChars, MaxViewCount)}

\* Pages of one admissible hit with any such duration and view count.
StatsInputs ==
    {[fn |-> "searchYouTubeVideos", key |-> TRUE, outcome |-> "ok",
      items |-> <<[videoId |-> 1, details |-> "ok",
                   duration |-> du, viewCount |-> vc]>>,
      maxResults |-> m, difficulty |-> d] :
        du \in HitDurations, vc \in HitViewCounts, m \in 0..MaxLimit, d \in Tiers}

\* The session stands idle while a stage is exercised on its own.
SessionIdle ==
    /\ SessionInit
    /\ ~SKIP_VERIFICATION
    /\ YT_API_KEY
    /\ API_KEY

SearchInit ==
    /\ SessionIdle
    /\ AppIdle
    /\ pending = {}
    /\ results = << >>
    /\ answers = << >>
    /\ callIn \in SearchInputs \cup StatsInputs
    /\ callOut = NoCall

SearchCall ==
    /\ callOut = NoCall
    /\ LET r == searchYouTubeVideosCall(callIn.key, callIn.outcome,
                     callIn.items, callIn.maxResults, callIn.difficulty)
       IN  callOut' = [fn |-> callIn.fn, threw |-> r.threw, videos |-> r.videos,
                       fetches |-> SearchFetches(callIn.key, callIn.outcome,
                                                 callIn.items)]
    /\ UNCHANGED <<clientVars, sessionVars, fanoutVars, callIn>>

SearchNext == SearchCall

SpecSearch == SearchInit /\ [][SearchNext]_vars

----------------------------------------------------------------------------
(* searchMultipleQueries on its own: the searches settle in any order *)

\* A page of admissible hits, possibly naming a video twice.
FanoutAnswers ==
    {[outcome |-> "detailsRejects", items |-> << >>]}
        \cup {[outcome |-> "ok", items |-> items] :
                items \in SeqsUpTo({Hit(id, "ok") : id \in Ids}, MaxHits)}

FanoutInit ==
    /\ SessionIdle
    /\ AppIdle
    /\ callIn \in {[fn |-> "searchMultipleQueries", copy |-> c, queries |-> qs] :
                      c \in Copies, qs \in QueryLists \ {<< >>}}
    /\ pending = 1..Len(callIn.queries)
    /\ results = [i \in 1..Len(callIn.queries) |-> << >>]
    /\ answers = [i \in 1..Len(callIn.queries) |->
                     [outcome |-> "pending", videos |-> << >>]]
    /\ callOut = NoCall

\* An array filled in the order in which the searches settle.
SettleInArrivalOrder(rs, pend, i, value) ==
    [rs EXCEPT ![Len(rs) - Cardinality(pend) + 1] = value]

\* Promise.all puts the value of the i-th promise at index i of its array.
Settle(rs, pend, i, value) == [rs EXCEPT ![i] = value]

\* A merge that starts as soon as one search has settled.
SomeSettled(pend, n) == Cardinality(pend) < n

\* await Promise.all(searchPromises) resumes when no search is in flight.
AllSettled(pend, n) == pend = {}

\* The search of query i settles, in any order among those in flight.
SearchCompletes ==
    /\ \E i \in pending, answer \in FanoutAnswers :
        LET r == searchYouTubeVideos(TRUE, answer.outcome, answer.items,
                                     videosPerQuery, callIn.queries[i])
        IN  /\ results' = Settle(results, pending, i, r)
            /\ answers' = [answers EXCEPT
                              ![i] = [outcome |-> answer.outcome, videos |-> r]]
            /\ pending' = pending \ {i}
    /\ UNCHANGED <<clientVars, sessionVars, callVars>>

\* Promise.all has resolved: the merge loop runs over results in query order.
Merge ==
    /\ AllSettled(pending, Len(callIn.queries))
    /\ callOut = NoCall
    /\ callOut' = [fn |-> callIn.fn,
                   videos |-> searchMultipleQueries(callIn.copy, results)]
    /\ UNCHANGED <<clientVars, sessionVars, fanoutVars, callIn>>

FanoutNext == SearchCompletes \/ Merge

SpecFanout == FanoutInit /\ [][FanoutNext]_vars

----------------------------------------------------------------------------
(* verifyVideosRelevance on its own *)

\* Scores the model may return: 0, below the bar, at the bar, out of range.
ScoreValues == {0, 4, 7, 15}

\* Candidate lists: the video at position i has id i.
CandidateLists ==
    {[i \in 1..Len(ts) |-> [videoId |-> i, difficulty |-> ts[i]]] :
        ts \in SeqsUpTo(Tiers, MaxCandidates)}

ScoreLists == SeqsUpTo(ScoreValues, MaxCandidates)

\* The list may be shorter than the candidate list, or absent (empty).
VerifyScorings(n) ==
    {[kind |-> k, scores |-> << >>] : k \in ScoringKinds \ {"parsed"}}
        \cup {[kind |-> "parsed", scores |-> sc] :
                sc \in {t \in ScoreLists : Len(t) <= n}}

VerifyInit ==
    /\ SessionIdle
    /\ AppIdle
    /\ pending = {}
    /\ results = << >>
    /\ answers = << >>
    /\ callIn \in {[fn |-> "verifyVideosRelevance", copy |-> c,
                    keyConcepts |-> kc, videos |-> vs] :
                      c \in Copies, kc \in KeyConceptsValues, vs \in CandidateLists}
    /\ callOut = NoCall

\* One call of the stage.  Reading keyConcepts[0] from undefined throws
\* before the scoring call is made.
VerifyCall ==
    /\ callOut = NoCall
    /\ \E detailOutcome \in DetailOutcomes,
          scoring \in IF callIn.keyConcepts.defined
                      THEN VerifyScorings(Len(callIn.videos))
                      ELSE {[kind |-> "notCalled", scores |-> << >>]} :
        LET r == verifyVideosRelevance(callIn.copy, YT_API_KEY,
                     callIn.keyConcepts, callIn.videos, detailOutcome, scoring)
        IN  callOut' = [fn |-> callIn.fn, path |-> r.path, videos |-> r.videos,
                        scoring |-> scoring]
    /\ UNCHANGED <<clientVars, sessionVars, fanoutVars, callIn>>

VerifyNext == VerifyCall

SpecVerify == VerifyInit /\ [][VerifyNext]_vars

----------------------------------------------------------------------------
(* parseDuration on its own *)

DurationChars == {"P", "T", "H", "M", "S", "0", "7"}

\* details.contentDetails?.duration: absent, a string, or (the details
\* response being whatever JSON the provider sends) a value of another type.
DurationInputs ==
    {[fn |-> "parseDuration", kind |-> "absent", chars |-> << >>],
     [fn |-> "parseDuration", kind |-> "other", chars |-> <<"7">>]}
        \cup {[fn |-> "parseDuration", kind |-> "string", chars |-> s] :
                s \in SeqsUpTo(DurationChars, MaxDuration)}

DurationInit ==
    /\ SessionIdle
    /\ AppIdle
    /\ pending = {}
    /\ results = << >>
    /\ answers = << >>
    /\ callIn \in DurationInputs
    /\ callOut = NoCall

DurationCall ==
    /\ callOut = NoCall
    /\ LET r == parseDuration(callIn)
       IN  callOut' = [fn |-> callIn.fn, threw |-> r.threw, value |-> r.value]
    /\ UNCHANGED <<clientVars, sessionVars, fanoutVars, callIn>>

DurationNext == DurationCall

SpecDuration == DurationInit /\ [][DurationNext]_vars

----------------------------------------------------------------------------
(* The client's calls to the backend: findVideosForText, findVideosForImage *)

\* A message is a sequence of pieces of text, cut so that the words the
\* code searches for ('API key', 'fetch', 'endpoint') are pieces of their
\* own.
Includes(message, needle) == \E k \in 1..Len(message) : message[k] = needle

\* The two versions of the client's service module: the one with both
\* functions, and services/geminiAPI.js with findVideosForText alone.
ApiVersions == {"textAndImage", "textOnly"}

ApiFunctions(version) ==
    IF version = "textAndImage"
    THEN {"findVideosForText", "findVideosForImage"}
    ELSE {"findVideosForText"}

\* `Server error (${response.status}). Make sure the backend is running.`
ServerErrorMessage(status) ==
    <<"Server error (">> \o ToString(status)
        \o <<"). Make sure the backend is running.">>

EndpointNotFound ==
    <<"Image ", "endpoint", " not found. Make sure the backend is running.">>

InvalidApiKey == <<"Invalid ", "API key", ". Check server .env file.">>

CannotConnect == <<"Cannot connect to server. Make sure the backend is running.">>

\* The message of the error res.json() throws on a body that is no
\* JSON, and of the one reading .error of null throws.
JsonSyntaxError == <<"Unexpected token in JSON">>

NullTypeError == <<"Cannot read properties of null">>

\* response.ok
Ok(status) == status >= 200 /\ status <= 299

\* The error in hand when the block under `if (!res.ok)` is left.
\* In the version with both functions the throw of the server's message
\* sits inside the try whose catch throws the status message instead.
NotOkError(version, fn, res) ==
    IF version = "textAndImage"
    THEN IF fn = "findVideosForImage" /\ res.status = 404
         THEN EndpointNotFound
         ELSE ServerErrorMessage(res.status)
    ELSE IF res.body.kind = "html" THEN JsonSyntaxError
    ELSE IF res.body.kind = "null" THEN NullTypeError
    ELSE IF res.body.error # << >> THEN res.body.error
    ELSE <<"Server error">>

\* The outer catch block: the message of the error the function rejects
\* with.
Rethrown(fn, message) ==
    IF Includes(message, "API key") THEN InvalidApiKey
    ELSE IF Includes(message, "fetch") THEN CannotConnect
    ELSE IF fn = "findVideosForImage" /\ Includes(message, "endpoint")
    THEN CannotConnect
    ELSE IF message # << >> THEN message
    ELSE IF fn = "findVideosForImage"
    THEN <<"Failed to process image. Check internet and try again.">>
    ELSE <<"Failed to connect. Check internet and try again.">>

\* findVideosForText / findVideosForImage: what the promise settles with
\* for what fetch did.
findVideos(version, fn, res) ==
    IF res.kind = "rejects"
    THEN [rejected |-> TRUE, message |-> Rethrown(fn, res.message),
          data |-> "null"]
    ELSE IF ~Ok(res.status)
    THEN [rejected |-> TRUE,
          message |-> Rethrown(fn, NotOkError(version, fn, res)),
          data |-> "null"]
    ELSE IF res.body.kind = "html"
    THEN [rejected |-> TRUE, message |-> Rethrown(fn, JsonSyntaxError),
          data |-> "null"]
    ELSE [rejected |-> FALSE, message |-> << >>,
          data |-> IF res.body.kind = "null" THEN "null" ELSE "data"]

\* Messages a backend may put in {error: msg}: those the handlers send,
\* one that names the API key, one that mentions fetch, one that mentions
\* an endpoint, and the empty string.
ServerMessages ==
    {<<"Text is required">>,
     <<"Image is required">>,
     <<"Method not allowed">>,
     <<"GEMINI_API_KEY not configured">>,
     <<"Invalid ", "API key">>,
     <<"Failed to parse AI res. Please try again.">>,
     <<"Failed to process request. Please try again.">>,
     <<"Failed to ", "fetch", " the videos">>,
     <<"Unknown ", "endpoint">>,
     << >>}

Statuses == {200, 400, 401, 404, 405, 500}

\* What fetch may do: reject (the network is down; the message depends on
\* the browser), or resolve with a response whose body is JSON (an object,
\* with or without an error message, or null) or is not (an HTML page).
FetchOutcomes ==
    {[kind |-> "rejects", message |-> m] :
        m \in {<<"Failed to ", "fetch">>, <<"Load failed">>}}
    \cup {[kind |-> "response", status |-> s, body |-> b] :
            s \in Statuses,
            b \in {[kind |-> "html"], [kind |-> "null"]}
                    \cup {[kind |-> "object", error |-> m] : m \in ServerMessages}}

----------------------------------------------------------------------------
(* findVideosForText and findVideosForImage on their own *)

ApiInit ==
    /\ SessionIdle
    /\ AppIdle
    /\ pending = {}
    /\ results = << >>
    /\ answers = << >>
    /\ callIn \in {[fn |-> fn, version |-> v, response |-> o] :
                      v \in ApiVersions, fn \in {"findVideosForText", "findVideosForImage"},
                      o \in FetchOutcomes}
    /\ callIn.fn \in ApiFunctions(callIn.version)
    /\ callOut = NoCall

ApiCall ==
    /\ callOut = NoCall
    /\ LET r == findVideos(callIn.version, callIn.fn, callIn.response)
       IN  callOut' = [fn |-> callIn.fn, rejected |-> r.rejected,
                       message |-> r.message, data |-> r.data]
    /\ UNCHANGED <<clientVars, sessionVars, fanoutVars, callIn>>

ApiNext == ApiCall

SpecApi == ApiInit /\ [][ApiNext]_vars

----------------------------------------------------------------------------
(* The client: App *)

\* What the textarea may hold: nothing, whitespace, or some text.
InputTexts == {"", " ", "text"}

\* inputText.trim()
Trim(text) == IF text = " " THEN "" ELSE text

\* {!results && !loading && (...)}: the textarea and the submit button.
InputShown == app.results = "null" /\ ~app.loading

\* {error && !loading && (...)}: the message and the Try Again button.
ErrorShown == app.error # << >> /\ ~app.loading

\* {results && !loading && (...)}: the results and Start New Session.
ResultsShown == app.results # "null" /\ ~app.loading

\* onChange of the textarea.
SetInputText ==
    /\ InputShown
    /\ ~app.loading
    /\ \E text \in InputTexts \ {app.inputText} :
            app' = [app EXCEPT !.inputText = text]
    /\ UNCHANGED <<net, sessionVars, fanoutVars, callVars>>

\* A click on the submit button, which is disabled while the text is
\* blank: handleSearch up to its await, the request leaving.
HandleSearch ==
    /\ InputShown
    /\ ~(Trim(app.inputText) = "" \/ app.loading)
    /\ net.submits < MaxSubmits
    /\ Trim(app.inputText) # ""
    /\ app' = [app EXCEPT !.loading = TRUE, !.error = << >>, !.results = "null"]
    /\ net' = [submits |-> net.submits + 1, requests |-> net.requests + 1,
               inFlight |-> net.inFlight + 1]
    /\ UNCHANGED <<sessionVars, fanoutVars, callVars>>

\* The await of handleSearch resumes: setResults(data) or
\* setError(err.message || ...), then setLoading(false).
FetchSettles ==
    /\ net.inFlight > 0
    /\ \E outcome \in FetchOutcomes :
        LET r == findVideos("textOnly", "findVideosForText", outcome)
        IN  app' = IF r.rejected
                   THEN [app EXCEPT !.loading = FALSE,
                            !.error = IF r.message # << >> THEN r.message
                                      ELSE <<"Something went wrong. Try again.">>]
                   ELSE [app EXCEPT !.loading = FALSE, !.results = r.data]
    /\ net' = [net EXCEPT !.inFlight = @ - 1]
    /\ UNCHANGED <<sessionVars, fanoutVars, callVars>>

\* setResults(null); setError(null); setInputText('')
handleSearchAgain ==
    app' = [app EXCEPT !.results = "null", !.error = << >>, !.inputText = ""]

\* A click on Try Again.
TryAgain ==
    /\ ErrorShown
    /\ handleSearchAgain
    /\ UNCHANGED <<net, sessionVars, fanoutVars, callVars>>

\* A click on Start New Session.
StartNewSession ==
    /\ ResultsShown
    /\ handleSearchAgain
    /\ UNCHANGED <<net, sessionVars, fanoutVars, callVars>>

ClientInit ==
    /\ SessionIdle
    /\ AppIdle
    /\ pending = {}
    /\ results = << >>
    /\ answers = << >>
    /\ callIn = NoCall
    /\ callOut = NoCall

ClientNext ==
    SetInputText \/ HandleSearch \/ FetchSettles \/ TryAgain \/ StartNewSession

SpecClient == ClientInit /\ [][ClientNext]_vars

----------------------------------------------------------------------------
(* Properties *)

\* The order of tiers the specification states: beginner < intermediate <
\* advanced, an unrecognized tier ranking with intermediate.
TierRank(d) ==
    IF d = "beginner" THEN 0 ELSE IF d = "advanced" THEN 2 ELSE 1

TierAscending(vs) ==
    \A i, j \in 1..Len(vs) :
        i < j => TierRank(vs[i].difficulty) <= TierRank(vs[j].difficulty)

UniqueIds(vs) ==
    \A i, j \in 1..Len(vs) : i # j => vs[i].videoId # vs[j].videoId

Count(vs, x) == Cardinality({i \in 1..Len(vs) : vs[i] = x})

Range(vs) == {vs[i] : i \in 1..Len(vs)}

SameMultiset(a, b) ==
    /\ Len(a) = Len(b)
    /\ \A x \in Range(a) \cup Range(b) : Count(a, x) = Count(b, x)

\* The sub-list of vs at the positions of P, in list order.
AtPositions(vs, P) ==
    LET F[k \in 0..Len(vs)] ==
            IF k = 0 THEN << >>
            ELSE IF k \in P THEN Append(F[k - 1], vs[k]) ELSE F[k - 1]
    IN  F[Len(vs)]

Answered200 == pc = "done" /\ response.status = 200

\* The verification stage ran in this session: the first model response
\* parsed, fan-out produced a candidate and the flag did not skip it.
VerifiedPath == pc = "done" /\ verifyPath # "none"

\* C1: in every 200 response, on the fast path and on the verified path,
\* videos is difficulty-ascending (beginner < intermediate < advanced),
\* whatever order the model returned the queries in.
C1_DifficultyAscending == Answered200 => TierAscending(response.videos)

\* C2: in every 200 response of every entry point, on both paths, no two
\* entries of videos have the same videoId.
C2_NoDuplicateVideoIds == Answered200 => UniqueIds(response.videos)

Merged == callOut.fn = "searchMultipleQueries"

\* Position in the concatenated per-query results of the first video with
\* this id.
FirstAt(all, id) ==
    CHOOSE k \in 1..Len(all) :
        /\ all[k].videoId = id
        /\ \A j \in 1..(k - 1) : all[j].videoId # id

Searched == callOut.fn = "searchYouTubeVideos"

\* C4: for every non-negative limit, 0 included, and every provider
\* response, searchYouTubeVideos returns at most limit videos.
C4_AtMostLimit == Searched => Len(callOut.videos) <= callIn.maxResults

\* C5: once the first model response has parsed and fan-out has produced a
\* candidate, nothing inside the verification stage (a failing metadata
\* fetch or scoring call, an unparseable or malformed scoring response, an
\* empty or missing key_concepts) makes the session fail: it ends in a 200.
C5_VerificationNeverFails == VerifiedPath => response.status = 200

VerifyReturned == callOut.fn = "verifyVideosRelevance"

\* The score the list holds for position i; an absent position counts 0.
PositionalScore(i) ==
    IF i <= Len(callOut.scoring.scores) THEN callOut.scoring.scores[i] ELSE 0

ScoringFailed ==
    VerifyReturned /\ callOut.scoring.kind \in {"rejects", "unparseable"}

ScoringParsed == VerifyReturned /\ callOut.scoring.kind = "parsed"

Passing == {i \in 1..Len(callIn.videos) : PositionalScore(i) >= 7}

\* C6: when the scoring call fails or its response does not parse, the
\* stage returns exactly the input candidates, fields unchanged, all
\* beginner videos before all intermediate ones before all advanced ones.
C6_FailureFallback ==
    ScoringFailed =>
        /\ SameMultiset(callOut.videos, callIn.videos)
        /\ TierAscending(callOut.videos)

\* The positions a top-2 choice by raw score takes: no position left out
\* has a higher score than one taken, nor the same score at an earlier
\* position.
TopTwo ==
    CHOOSE S \in SUBSET (1..Len(callIn.videos)) :
        /\ Cardinality(S) = IF Len(callIn.videos) < 2 THEN Len(callIn.videos) ELSE 2
        /\ \A i \in S, j \in (1..Len(callIn.videos)) \ S :
              \/ PositionalScore(i) > PositionalScore(j)
              \/ (PositionalScore(i) = PositionalScore(j) /\ i < j)

\* C7: when the scoring response parses and fewer than 2 candidates score
\* 7 or more, the stage returns exactly the 2 candidates with the highest
\* raw scores (all of them if fewer than 2), ties going to the earlier
\* position, ordered by tier.
C7_TopTwoFallback ==
    (ScoringParsed /\ Cardinality(Passing) < 2) =>
        /\ SameMultiset(callOut.videos, AtPositions(callIn.videos, TopTwo))
        /\ TierAscending(callOut.videos)

\* C8: when the scoring response parses and at least 2 candidates score 7
\* or more, the stage returns exactly the candidates whose positional score
\* is 7 or more: each of them, and no candidate scoring below 7.
C8_ThresholdFilter ==
    (ScoringParsed /\ Cardinality(Passing) >= 2) =>
        SameMultiset(callOut.videos, AtPositions(callIn.videos, Passing))

\* C8 witness: two candidates at or above 7, one of them at exactly 7, are
\* returned and a candidate below 7 is left out.
C8_Witness ==
    /\ ScoringParsed
    /\ callOut.path = "threshold"
    /\ Len(callOut.videos) = 2
    /\ \E i \in Passing : PositionalScore(i) = 7
    /\ Len(callOut.videos) < Len(callIn.videos)

OutOfRange(i) == PositionalScore(i) < 0 \/ PositionalScore(i) > 10

Returned == {i \in 1..Len(callIn.videos) : callIn.videos[i] \in Range(callOut.videos)}

\* C9: a score outside [0, 10] counts as 0: a candidate with such a score
\* is never admitted by the filter at 7, and in the top-2 fallback it is
\* never returned ahead of a candidate with a higher in-range score.
C9_OutOfRangeCountsAsZero ==
    ScoringParsed =>
        /\ callOut.path = "threshold" => \A i \in Returned : ~OutOfRange(i)
        /\ callOut.path = "top2" =>
              \A i \in Returned, j \in (1..Len(callIn.videos)) \ Returned :
                  OutOfRange(i) => (OutOfRange(j) \/ PositionalScore(j) <= 0)

\* C10: on the verified path, when the provider responses hold at least 2
\* distinct admissible videos, the Session Result holds at least 2 videos,
\* on every entry point and whatever the scores.
C10_AtLeastTwoVideos ==
    (VerifiedPath /\ response.status = 200 /\ Cardinality(offered) >= 2) =>
        Len(response.videos) >= 2

\* Fan-out ran in this session and returned no candidate.
FanOutEmpty == pc = "done" /\ HasQueries(data) /\ videos = << >>

\* The body carries field f with the value the model gave it, or leaves it
\* out when the model did.
Carried(f) ==
    IF Undefined(data, f) THEN f \notin DOMAIN response.body
    ELSE f \in DOMAIN response.body /\ response.body[f] = data[f]

\* C11: when the first model response parsed and fan-out yields no
\* candidate (provider credential absent, every query failing, every hit
\* ineligible), the session ends in a 200 whose videos is the empty list
\* and whose overview, key concepts and study tip are the model's, and the
\* model was called exactly once (verification did not run).
C11_EmptyFanOut ==
    FanOutEmpty =>
        /\ response.status = 200
        /\ "videos" \in DOMAIN response.body
        /\ response.body.videos = << >>
        /\ Carried("overview")
        /\ Carried("key_concepts")
        /\ Carried("study_tip")
        /\ calls.model = 1
        /\ verifyPath = "none"

\* C11 witness: with the provider credential set, every query failed or
\* returned only ineligible hits, and the session was answered.
C11_Witness ==
    /\ FanOutEmpty
    /\ YT_API_KEY
    /\ calls.provider >= 2
    /\ data.key_concepts.defined
    /\ response.status = 200

\* A POST to a text entry point whose text is missing, empty or blank.
EmptyTextRequest ==
    /\ pc # "idle"
    /\ ~IsImage(entry)
    /\ req.method = "POST"
    /\ req.input \in {"missing", "empty", "blank"}

\* C12: a text request whose text is missing, empty or whitespace-only is
\* answered 400 on every text entry point and in every configuration, the
\* model credential unset included, and no call to the model or to the
\* video provider is made for it.
C12_EmptyTextIs400 ==
    EmptyTextRequest =>
        /\ pc = "done"
        /\ response.status = 400
        /\ calls = NoCalls

\* C13: no 200 response body has a search_queries field, whatever the
\* model returned as search_queries: a list, an empty list, or no list.
C13_NoSearchQueriesField ==
    Answered200 => "search_queries" \notin DOMAIN response.body

\* C14: searchYouTubeVideos never lets an error out: without the provider
\* key it makes no provider call and returns the empty list, and when the
\* search call or the details call fails or returns a malformed body it
\* returns the empty list.
C14_SearchNeverThrows ==
    Searched =>
        /\ ~callOut.threw
        /\ ~callIn.key => (callOut.fetches = 0 /\ callOut.videos = << >>)
        /\ callIn.outcome \in SearchFailures => callOut.videos = << >>

\* C14 witness: the search returned hits, the details call failed, and the
\* call returned the empty list.
C14_Witness ==
    /\ Searched
    /\ callIn.key
    /\ callIn.outcome = "detailsRejects"
    /\ \E k \in 1..Len(callIn.items) : Eligible(callIn.items[k])
    /\ callOut.fetches = 2
    /\ callOut.videos = << >>
    /\ ~callOut.threw

\* The lists the searches returned, concatenated in the order of the
\* queries that asked for them.
InQueryOrder ==
    LET F[k \in 0..Len(answers)] ==
            IF k = 0 THEN << >> ELSE F[k - 1] \o answers[k].videos
    IN  F[Len(answers)]

\* The positions of a list that hold the first entry with their videoId.
FirstPositions(all) ==
    {k \in 1..Len(all) : \A j \in 1..(k - 1) : all[j].videoId # all[k].videoId}

\* C15: the list searchMultipleQueries returns depends only on the query
\* sequence and on what the provider answered to each query, not on the
\* order in which the searches settled: it is the merge of the per-query
\* lists taken in query order.
C15_MergeIgnoresCompletionOrder ==
    Merged =>
        callOut.videos =
            IF callIn.copy = "apiImage" THEN InQueryOrder
            ELSE AtPositions(InQueryOrder, FirstPositions(InQueryOrder))

\* C15 witness: two searches that returned different lists were merged.
C15_Witness ==
    /\ Merged
    /\ Len(answers) >= 2
    /\ answers[1].videos # << >>
    /\ answers[2].videos # << >>
    /\ answers[1].videos[1].videoId # answers[2].videos[1].videoId
    /\ Len(callOut.videos) >= 2

ParseFailed ==
    pc = "done" /\ modelOutcome \in {"unparseable", "unparseableApiKey"}

\* C17: when the first model response, code fences stripped, does not
\* parse, the session ends in a 500 with the parse-failure message, the
\* process goes on to serve the next request, and neither a video search
\* nor a verification call is made in the session.
C17_ParseFailureIs500 ==
    ParseFailed =>
        /\ response.status = 500
        /\ response.body = ErrorBody("Failed to parse")
        /\ calls = [model |-> 1, provider |-> 0]
        /\ ENABLED Request

\* C19: without the model credential no request leads to a call to the
\* model or to the video provider: the server has exited at startup and
\* serves nothing, and a serverless handler answers every POST with an
\* error status.
C19_NoCredentialNoCalls ==
    ~API_KEY =>
        /\ calls = NoCalls
        /\ pc \in {"idle", "done"}
        /\ pc = "done" =>
              /\ CopyOf(entry) # "server"
              /\ response.status \in {400, 401, 405, 500}

\* C19 witness: without the model credential, a POST with an image to the
\* serverless image handler was answered 401.
C19_Witness ==
    /\ ~API_KEY
    /\ pc = "done"
    /\ entry = "apiImage"
    /\ req = [method |-> "POST", input |-> "image"]
    /\ response.status = 401
    /\ calls = NoCalls

\* C20: on each of its three return paths (threshold filter, top-2
\* fallback, failure fallback) every video verifyVideosRelevance returns
\* is one of the input candidates with exactly the input's fields and
\* values: it has no description, tags or score field.
C20_ReturnsInputVideos ==
    (VerifyReturned /\ callOut.path \in {"threshold", "top2", "failed"}) =>
        \A k \in 1..Len(callOut.videos) :
            /\ callOut.videos[k] \in Range(callIn.videos)
            /\ DOMAIN callOut.videos[k]
                  \cap {"description", "tags", "score"} = {}

\* C20 witness: the details fetch succeeded, the scores parsed, and the
\* top-2 fallback returned two of three candidates.
C20_Witness ==
    /\ ScoringParsed
    /\ callOut.path = "top2"
    /\ Len(callIn.videos) = 3
    /\ Len(callOut.videos) = 2
    /\ \E i \in 1..Len(callIn.videos) : PositionalScore(i) > 0

\* The handler is suspended on an outbound call.
InProgress == pc \in {"model", "fanout", "verify"}

\* A 200 Session Result, or a JSON error body with a message and one of
\* the error statuses.
WellFormedResponse ==
    \/ /\ response.status = 200
       /\ "videos" \in DOMAIN response.body
    \/ /\ response.status \in {400, 401, 405, 500}
       /\ DOMAIN response.body = {"error"}
       /\ response.body.error # ""

TierSorted(vs) ==
    StableSort(vs, [i \in 1..Len(vs) |-> TierRank(vs[i].difficulty)])

\* The first model response parsed and the session was answered.
ParsedAndAnswered == pc = "done" /\ modelOutcome = "parsed"

\* C21: every 200 response has at most 4 videos, and the flag selects the
\* path: with the flag set the videos are the first 4 entries of the merged
\* list sorted by tier and the model was called exactly once (no scoring
\* call); with the flag unset the verification stage ran, once, if and
\* only if fan-out returned at least one candidate.
C21_FlagSelectsPath ==
    /\ Answered200 => Len(response.videos) <= MaxVideos
    /\ (ParsedAndAnswered /\ SKIP_VERIFICATION) =>
          /\ response.status = 200
          /\ response.videos = Slice(TierSorted(videos), MaxVideos)
          /\ calls.model = 1
          /\ verifyPath = "none"
    /\ (ParsedAndAnswered /\ ~SKIP_VERIFICATION) =>
          /\ verifyPath # "none" <=> Len(videos) >= 1
          /\ calls.model = IF Len(videos) >= 1 /\ data.key_concepts.defined
                           THEN 2 ELSE 1

DurationReturned == callOut.fn = "parseDuration"

\* Positions lo..hi of s are empty, or hold one or more digits and then
\* the unit letter.
DurationPart(s, lo, hi, unit) ==
    \/ hi = lo - 1
    \/ /\ hi > lo
       /\ s[hi] = unit
       /\ \A k \in lo..(hi - 1) : IsDigit(s[k])

\* The whole string is PT[nH][nM][nS].
DurationForm(s) ==
    /\ Len(s) >= 2
    /\ s[1] = "P"
    /\ s[2] = "T"
    /\ \E i, j \in 2..Len(s) :
          /\ i <= j
          /\ DurationPart(s, 3, i, "H")
          /\ DurationPart(s, i + 1, j, "M")
          /\ DurationPart(s, j + 1, Len(s), "S")

\* The hours of a string of that form.
FormHours(s) ==
    IF \E k \in 1..Len(s) : s[k] = "H"
    THEN ParseDigits(SubSeq(s, 3, (CHOOSE k \in 1..Len(s) : s[k] = "H") - 1))
    ELSE 0

TwoDigitsAt(v, k) == IsDigit(v[k]) /\ IsDigit(v[k + 1])

\* One or more digits, a colon, two digits.
IsMSS(v) ==
    \E k \in 1..Len(v) :
        /\ Len(v) = k + 3
        /\ \A j \in 1..k : IsDigit(v[j])
        /\ v[k + 1] = ":"
        /\ TwoDigitsAt(v, k + 2)

\* One or more digits, a colon, two digits, a colon, two digits.
IsHMMSS(v) ==
    \E k \in 1..Len(v) :
        /\ Len(v) = k + 6
        /\ \A j \in 1..k : IsDigit(v[j])
        /\ v[k + 1] = ":"
        /\ TwoDigitsAt(v, k + 2)
        /\ v[k + 4] = ":"
        /\ TwoDigitsAt(v, k + 5)

WellFormedDuration == callIn.kind = "string" /\ DurationForm(callIn.chars)

\* C22: parseDuration never throws; it returns "Unknown" when its input is
\* absent or is not of the form PT[nH][nM][nS], H:MM:SS when the input is
\* of that form with hours > 0, and M:SS when it is of that form with
\* hours = 0, minutes and seconds of H:MM:SS and seconds of M:SS being two
\* digits.
C22_ParseDuration ==
    DurationReturned =>
        /\ ~callOut.threw
        /\ ~WellFormedDuration => callOut.value = Unknown
        /\ (WellFormedDuration /\ FormHours(callIn.chars) > 0) =>
              IsHMMSS(callOut.value)
        /\ (WellFormedDuration /\ FormHours(callIn.chars) = 0) =>
              IsMSS(callOut.value)

\* The raw view count of a hit cannot be parsed as a number: it is a string
\* that does not start with a digit or with a minus sign and a digit.
Unparseable(raw) ==
    /\ raw.kind = "string"
    /\ raw.chars # << >>
    /\ ~IsDigit(raw.chars[1])
    /\ ~(Len(raw.chars) >= 2 /\ raw.chars[1] = "-" /\ IsDigit(raw.chars[2]))

Missing(raw) == raw.kind = "absent" \/ raw.chars = << >>

\* The hit of the page a returned video was built from.
HitOf(v) == CHOOSE h \in Range(callIn.items) : h.videoId = v.videoId /\ Eligible(h)

\* C23: every video searchYouTubeVideos admits has a viewCount that is a
\* non-negative integer, and that is 0 when the provider's view count is
\* missing or cannot be parsed as a number.
C23_ViewCountNonNegative ==
    Searched =>
        \A k \in 1..Len(callOut.videos) :
            LET v == callOut.videos[k]
                raw == HitOf(v).viewCount
            IN  /\ ~v.viewCount.nan
                /\ v.viewCount.n >= 0
                /\ (Missing(raw) \/ Unparseable(raw)) => v.viewCount.n = 0

\* A POST to an image entry point whose image is absent or empty, is no
\* string, or is a data URL with nothing after its first comma.
InvalidImageRequest ==
    /\ pc # "idle"
    /\ IsImage(entry)
    /\ req.method = "POST"
    /\ req.input \in {"missing", "noData", "number", "array"}

\* C24: an image request whose image is missing or invalid (absent, empty,
\* not a string, or a data URL with an empty payload) is answered 400, and
\* no call to the model is made for it.
C24_InvalidImageIs400 ==
    InvalidImageRequest =>
        /\ pc = "done"
        /\ response.status = 400
        /\ calls.model = 0

ApiReturned == callOut.fn \in {"findVideosForText", "findVideosForImage"}

\* The backend answered a status outside 2xx with a JSON body {error: msg},
\* msg mentioning neither 'API key' nor 'fetch'.
ErrorAnswer ==
    /\ callIn.response.kind = "response"
    /\ ~Ok(callIn.response.status)
    /\ callIn.response.body.kind = "object"
    /\ callIn.response.body.error # << >>
    /\ ~Includes(callIn.response.body.error, "API key")
    /\ ~Includes(callIn.response.body.error, "fetch")

\* C30: when the backend answers a non-2xx status with a JSON body
\* {error: msg} whose message mentions neither 'API key' nor 'fetch',
\* findVideosForText and findVideosForImage reject with an Error whose
\* message is exactly msg.
C30_ServerMessageShown ==
    (ApiReturned /\ ErrorAnswer) =>
        /\ callOut.rejected
        /\ callOut.message = callIn.response.body.error

\* A response has failed and the App shows its message.
AfterFailure == ErrorShown

\* C25: in the client every backend request is caused by exactly one
\* submit action of the user (requests and submits go one to one, a
\* request leaves only in a submit step), no request starts while one is
\* in flight, and on an error the only action offered is Try Again (no
\* submit, no edit of the text), which clears the input text, the results
\* and the error.
C25_RequestsOnlyOnSubmit ==
    /\ [](net.requests = net.submits)
    /\ [](net.inFlight <= 1)
    /\ [][net'.requests # net.requests => HandleSearch]_vars
    /\ [](AfterFailure =>
            (~ENABLED HandleSearch /\ ~ENABLED SetInputText
                /\ ~ENABLED StartNewSession))
    /\ [][TryAgain =>
            (app'.inputText = "" /\ app'.results = "null" /\ app'.error = << >>)]_vars

\* The hits of the page that are eligible, in the order of the page.
EligibleHits == AtPositions(callIn.items, {k \in 1..Len(callIn.items) : Eligible(callIn.items[k])})

Min(a, b) == IF a < b THEN a ELSE b

\* The provider answered both fetches of the search.
ProviderAnswered == Searched /\ callIn.key /\ callIn.outcome = "ok"

\* C26: the list searchYouTubeVideos returns is exactly the first
\* min(limit, k) eligible hits in the order the provider returned them, k
\* being the number of eligible hits (those with a details entry that is
\* embeddable and public), and each returned video carries the tier the
\* caller gave.
C26_FirstEligibleHits ==
    ProviderAnswered =>
        /\ Len(callOut.videos) = Min(callIn.maxResults, Len(EligibleHits))
        /\ \A j \in 1..Len(callOut.videos) :
              /\ j <= Len(EligibleHits)
              /\ callOut.videos[j].videoId = EligibleHits[j].videoId
              /\ callOut.videos[j].difficulty = callIn.difficulty

\* The scoring response parsed and its scores list is shorter than the
\* candidate list, or missing.
ScoresTooShort ==
    ScoringParsed /\ Len(callOut.scoring.scores) < Len(callIn.videos)

\* C27: a scoring response that parses with a missing or too-short scores
\* list does not trigger the failure fallback; each missing positional
\* score counts as 0 (the threshold path is taken exactly when 2 or more
\* positional scores are 7 or more), so when all scores are missing and
\* there are at least 2 candidates the stage returns exactly the first 2
\* candidates of the input list, sorted by tier.
C27_MissingScoresCountZero ==
    ScoresTooShort =>
        /\ callOut.path \in {"threshold", "top2"}
        /\ callOut.path = "threshold" <=> Cardinality(Passing) >= 2
        /\ (callOut.scoring.scores = << >> /\ Len(callIn.videos) >= 2) =>
              callOut.videos = TierSorted(SubSeq(callIn.videos, 1, 2))

\* The queries whose search returned a video with this id.
ReturnedBy(id) ==
    {i \in 1..Len(answers) :
        \E k \in 1..Len(answers[i].videos) : answers[i].videos[k].videoId = id}

\* The earliest of them in query order.
EarliestQuery(id) ==
    CHOOSE i \in ReturnedBy(id) : \A j \in ReturnedBy(id) : i <= j

\* C28: when several queries with different tiers return the same videoId,
\* every entry of the list searchMultipleQueries returns carries the tier
\* of the earliest query, in query order, that returned its video.
C28_TierOfEarliestQuery ==
    Merged =>
        \A k \in 1..Len(callOut.videos) :
            callOut.videos[k].difficulty
                = callIn.queries[EarliestQuery(callOut.videos[k].videoId)]

\* C29: the copies of the pipeline are equivalent; at the fan-out stage,
\* the three copies of searchMultipleQueries return the same merged list
\* for the same per-query results.
C29_CopiesEquivalent ==
    Merged =>
        \A copy \in Copies :
            searchMultipleQueries(copy, results) = callOut.videos

====
